---- MODULE Spec2Model ----
(***************************************************************************)
(* Model of pi-camera-stream.                                              *)
(*                                                                         *)
(* src/main.go: one capture goroutine (frameBroadcaster) ranges over the   *)
(* output channel of the camera device and fans every non-empty frame out  *)
(* to the per-client buffered channels of the registry `clients`; one      *)
(* goroutine per /stream request (imageServ) registers a channel, writes   *)
(* the frames it receives as multipart parts and tears itself down; the    *)
(* /restart handler (resetCameraWeb -> restartCamera) closes and reopens   *)
(* the device.                                                             *)
(*                                                                         *)
(* src/unnamed/part_000 (its second program, lines 198-446): the recording *)
(* variant.  frameBroadcaster pipes every frame into an ffmpeg subprocess, *)
(* offers it to the one channel all viewers share (encodedFrameChan) and   *)
(* restarts the camera inside a wall-clock window; imageServ ranges over   *)
(* the shared channel.  It is the specification SpecSink.                  *)
(*                                                                         *)
(* SpecRestart is main.go with two /restart requests in flight and no      *)
(* viewer connected.                                                       *)
(***************************************************************************)
EXTENDS Integers, Sequences, FiniteSets, TLC

\* ---------------------------------------------------------------- bounds
MaxFrames     == 2   \* frames the camera produces in a run
ClientChanCap == 1   \* capacity of a client channel (30 in main.go:81, scaled down)

Sessions == {1, 2}     \* the /stream requests of a run, one client channel each
Restarts == {1}        \* the /restart requests of a run
RestartTasks == {1, 2} \* the /restart requests of a run with concurrent restarts
Handles  == 1..(Cardinality(RestartTasks) + 1)   \* every setupCamera call yields a fresh handle

EncodedChanCap == 10   \* part_000:223  make(chan []byte, 10)

NoHandle == 0      \* the nil *device.Device
MutexFree == 0     \* clientsMutex unlocked
BcHolder == -1     \* clientsMutex held by frameBroadcaster

Frames == [id : 1..MaxFrames, src : Handles, len : {0, 1}]
NoFrame == [id |-> 0, src |-> 0, len |-> 0]

VARIABLES
    cameraDevice,  \* the global *device.Device: a handle, or NoHandle
    devState,      \* per handle: "unopened", "open", "closed"
    output,        \* per handle: buffered frames of the device output channel
    outClosed,     \* per handle: output channel closed
    closes,        \* per handle: number of Close calls made on it
    nextFrame,     \* capture counter: id of the next frame the hardware yields
    nextHandle,    \* next handle device.Open returns
    rpc,           \* per /restart request: "idle", "open", "done"
    bcpc,          \* frameBroadcaster: "start","recv","lock","fanout","done","panic"
    bcFrames,      \* the handle whose output the local `frames` is bound to
    bcFrame,       \* the frame of the current loop iteration
    bcTodo,        \* client channels the current range over `clients` has yet to visit
    clientsMutex,  \* holder of clientsMutex
    clients,       \* the registry: set of client channels (one per session)
    q,             \* per session: buffered frames of its clientChan
    chClosed,      \* per session: clientChan closed
    pc,            \* per session: "idle","wait","write","exit","close","returned"
    cancelled,     \* per session: req.Context().Done() is closed
    cur,           \* per session: frame received and not yet written
    offered,       \* history per session: frames whose send was attempted on its channel
    written,       \* history per session: frames written to the connection
    lastPub,       \* history: id of the last frame whose fan-out pass completed
    joinedAt,      \* history per session: lastPub when it was inserted into the registry
    recording,     \* whether the history variables are kept (constant over a run)
    encodedFrameChan, \* part_000: buffered frames of the channel all viewers share
    sink,          \* part_000: the ffmpeg subprocess: "running", "stalled", "exited"
    sinkGot,       \* part_000: history: frames written to ffmpeg's stdin
    inWindow,      \* part_000: the wall clock is in a restart window
    winRestarts,   \* part_000: history: restartCamera calls made in the latest window
    winStart       \* part_000: history: nextFrame when the latest window opened

camVars  == <<cameraDevice, devState, output, outClosed, closes, nextFrame, nextHandle, rpc>>
bcVars   == <<bcpc, bcFrames, bcFrame, bcTodo, lastPub>>
regVars  == <<clientsMutex, clients>>
sessVars == <<q, chClosed, pc, cancelled, cur, offered, written, joinedAt>>
sinkVars == <<encodedFrameChan, sink, sinkGot, inWindow, winRestarts, winStart>>
vars     == <<camVars, bcVars, regVars, sessVars, recording, sinkVars>>

\* ------------------------------------------------------------- channels

\* mutant: no frame counts as empty, the check is gone
IsEmptyNever(f) == FALSE

\* main.go:55  len(frame) == 0
IsEmptyFrame(f) == f.len = 0

\* mutant: a full buffer makes room by evicting its oldest frame
TrySendEvict(buf, f) ==
    IF Len(buf) < ClientChanCap THEN Append(buf, f) ELSE Append(Tail(buf), f)

\* main.go:62-66  select { case clientChan <- frame: default: }
\* a ready send appends to the buffer; on a full buffer the default branch runs
TrySend(buf, f) == IF Len(buf) < ClientChanCap THEN Append(buf, f) ELSE buf

\* mutant: the send waits until the viewer has drained its queue
SendWhenDrained(buf) == buf = <<>>

\* mutant: a plain send, without the default branch, waits for room
SendBlocks(buf) == Len(buf) < ClientChanCap

\* main.go:62-66  the select has a default branch: it is always ready to proceed
SendReady(buf) == TRUE

\* main.go:104  frame, ok := <-clientChan : the receive takes the oldest frame
RecvFrame(buf) == Head(buf)

\* mutant: the received frame stays in the buffer
RecvKeeps(buf) == buf

\* main.go:104  the received frame leaves the buffer
RecvRest(buf)  == Tail(buf)

\* mutant: the range stops after its first channel
RangeFirst(reg) == IF reg = {} THEN {} ELSE {CHOOSE c \in reg : TRUE}

\* mutant: the range visits every channel ever made, registered or not
RangeAll(reg) == Sessions

\* main.go:61  for clientChan := range clients : every channel of the registry
RangeClients(reg) == reg

\* mutant: the session never inserts its channel
RegisterNothing(reg, c) == reg

\* main.go:83  clients[clientChan] = struct{}{}
Register(reg, c) == reg \cup {c}

\* mutant: the teardown empties the registry
UnregisterAll(reg, c) == {}

\* mutant: the teardown closes the channel and leaves it in the registry
UnregisterKeeps(reg, c) == reg

\* main.go:88  delete(clients, clientChan)
Unregister(reg, c) == reg \ {c}

\* mutant: the loop waits on the channel alone (for frame := range clientChan)
DoneNever(isCancelled) == FALSE

\* main.go:119  case <-req.Context().Done() is ready once the context is cancelled
DoneReady(isCancelled) == isCancelled

\* mutant: a failed part is logged and the loop goes on
AfterWriteRetry(res) == "wait"

\* main.go:109-118  a part that is created and written keeps the loop going;
\* a failed CreatePart or Write returns from the handler
AfterWrite(res) == IF res = "ok" THEN "wait" ELSE "exit"

\* mutant: Lock returns at once, whoever holds the mutex
LockIgnored(holder) == TRUE

\* main.go:60, 82, 87  clientsMutex.Lock() returns once nobody holds the mutex
LockFree(holder) == holder = MutexFree

\* history variables: what happened, for the properties; the program does not
\* read them
Record(hist, f) == IF recording THEN Append(hist, f) ELSE hist
RecordId(old, id) == IF recording THEN id ELSE old

\* ----------------------------------------------------------------- Init

Start ==
    /\ cameraDevice = 1                      \* main.go:206 setupCamera succeeded
    /\ devState = [h \in Handles |-> IF h = 1 THEN "open" ELSE "unopened"]
    /\ output = [h \in Handles |-> <<>>]
    /\ outClosed = [h \in Handles |-> FALSE]
    /\ closes = [h \in Handles |-> 0]
    /\ nextFrame = 1
    /\ nextHandle = 2
    /\ rpc = [r \in RestartTasks |-> "idle"]
    /\ bcpc = "start"
    /\ bcFrames = NoHandle
    /\ bcFrame = NoFrame
    /\ bcTodo = {}
    /\ clientsMutex = MutexFree
    /\ clients = {}
    /\ q = [s \in Sessions |-> <<>>]
    /\ chClosed = [s \in Sessions |-> FALSE]
    /\ pc = [s \in Sessions |-> "idle"]
    /\ cancelled = [s \in Sessions |-> FALSE]
    /\ cur = [s \in Sessions |-> NoFrame]
    /\ offered = [s \in Sessions |-> <<>>]
    /\ written = [s \in Sessions |-> <<>>]
    /\ lastPub = 0
    /\ joinedAt = [s \in Sessions |-> 0]
    /\ encodedFrameChan = <<>>
    /\ sink = "running"                      \* part_000:278 cmd.Start succeeded
    /\ sinkGot = <<>>
    /\ inWindow = FALSE
    /\ winRestarts = 0
    /\ winStart = 1

Init == Start /\ recording = TRUE

\* the same program with the history variables switched off
InitLive == Start /\ recording = FALSE

\* --------------------------------------------------------------- camera

\* the device's stream loop puts the next captured frame (possibly zero-length)
\* on the output channel of an open device
Capture(h) ==
    /\ devState[h] = "open"
    /\ ~outClosed[h]
    /\ nextFrame <= MaxFrames
    /\ output[h] = <<>>                      \* the previous frame has been taken
    /\ \E l \in {0, 1} :
         output' = [output EXCEPT ![h] = Append(@, [id |-> nextFrame, src |-> h, len |-> l])]
    /\ nextFrame' = nextFrame + 1
    /\ UNCHANGED <<cameraDevice, devState, outClosed, closes, nextHandle, rpc>>
    /\ UNCHANGED <<bcVars, regVars, sessVars>>
    /\ UNCHANGED <<recording, sinkVars>>

\* main.go:127-129  if cameraDevice != nil { cameraDevice.Close() }
\* Whether Close also closes the device's output channel is the library's
\* business: both outcomes are possible.
RestartClose(r) ==
    /\ rpc[r] = "idle"
    /\ rpc' = [rpc EXCEPT ![r] = "open"]
    /\ IF cameraDevice # NoHandle
         THEN /\ devState' = [devState EXCEPT ![cameraDevice] = "closed"]
              /\ closes' = [closes EXCEPT ![cameraDevice] = @ + 1]
              /\ \E c \in BOOLEAN :
                   outClosed' = [outClosed EXCEPT ![cameraDevice] = @ \/ c]
         ELSE UNCHANGED <<devState, outClosed, closes>>
    /\ UNCHANGED <<cameraDevice, output, nextFrame, nextHandle>>
    /\ UNCHANGED <<bcVars, regVars, sessVars>>
    /\ UNCHANGED <<recording, sinkVars>>

\* main.go:130-134  cameraDevice, err = setupCamera(); a failure is logged
RestartOpen(r) ==
    /\ rpc[r] = "open"
    /\ rpc' = [rpc EXCEPT ![r] = "done"]
    /\ \E ok \in BOOLEAN :
         IF ok
           THEN /\ cameraDevice' = nextHandle
                /\ devState' = [devState EXCEPT ![nextHandle] = "open"]
                /\ nextHandle' = nextHandle + 1
           ELSE /\ cameraDevice' = NoHandle
                /\ UNCHANGED <<devState, nextHandle>>
    /\ UNCHANGED <<output, outClosed, closes, nextFrame>>
    /\ UNCHANGED <<bcVars, regVars, sessVars>>
    /\ UNCHANGED <<recording, sinkVars>>

\* ----------------------------------------------------- frameBroadcaster

\* main.go:52  frames := cameraDevice.GetOutput()  (a nil device panics)
BcStart ==
    /\ bcpc = "start"
    /\ IF cameraDevice = NoHandle
         THEN /\ bcpc' = "panic"
              /\ UNCHANGED bcFrames
         ELSE /\ bcpc' = "recv"
              /\ bcFrames' = cameraDevice
    /\ UNCHANGED <<bcFrame, bcTodo, lastPub>>
    /\ UNCHANGED <<camVars, regVars, sessVars>>
    /\ UNCHANGED <<recording, sinkVars>>

\* main.go:53-58  for frame := range frames { if len(frame) == 0 { continue } ...
BcRecv ==
    /\ bcpc = "recv"
    /\ IF output[bcFrames] # <<>>
         THEN LET f == Head(output[bcFrames]) IN
              /\ output' = [output EXCEPT ![bcFrames] = Tail(@)]
              /\ IF IsEmptyFrame(f)
                   THEN UNCHANGED <<bcpc, bcFrame>>
                   ELSE /\ bcpc' = "lock"
                        /\ bcFrame' = f
         ELSE /\ outClosed[bcFrames]
              /\ bcpc' = "done"
              /\ UNCHANGED <<output, bcFrame>>
    /\ UNCHANGED <<bcFrames, bcTodo, lastPub>>
    /\ UNCHANGED <<cameraDevice, devState, outClosed, closes, nextFrame, nextHandle, rpc>>
    /\ UNCHANGED <<regVars, sessVars>>
    /\ UNCHANGED <<recording, sinkVars>>

\* main.go:60-61  clientsMutex.Lock(); for clientChan := range clients
BcLock ==
    /\ bcpc = "lock"
    /\ LockFree(clientsMutex)
    /\ clientsMutex' = BcHolder
    /\ bcpc' = "fanout"
    /\ bcTodo' = RangeClients(clients)
    /\ UNCHANGED <<bcFrames, bcFrame, lastPub, clients>>
    /\ UNCHANGED <<camVars, sessVars>>
    /\ UNCHANGED <<recording, sinkVars>>

\* main.go:61-67  one iteration of the range: the non-blocking send to one client
BcSend ==
    /\ bcpc = "fanout"
    /\ \E c \in bcTodo :
         /\ SendReady(q[c])
         /\ q' = [q EXCEPT ![c] = TrySend(@, bcFrame)]
         /\ offered' = [offered EXCEPT ![c] = Record(@, bcFrame)]
         /\ bcTodo' = bcTodo \ {c}
    /\ UNCHANGED <<bcpc, bcFrames, bcFrame, lastPub>>
    /\ UNCHANGED <<chClosed, pc, cancelled, cur, written, joinedAt>>
    /\ UNCHANGED <<camVars, regVars>>
    /\ UNCHANGED <<recording, sinkVars>>

\* main.go:68  clientsMutex.Unlock(), then back to the range over frames
BcUnlock ==
    /\ bcpc = "fanout"
    /\ bcTodo = {}
    /\ clientsMutex' = MutexFree
    /\ bcpc' = "recv"
    /\ bcFrame' = NoFrame
    /\ lastPub' = RecordId(lastPub, bcFrame.id)
    /\ UNCHANGED <<bcFrames, bcTodo, clients>>
    /\ UNCHANGED <<camVars, sessVars>>
    /\ UNCHANGED <<recording, sinkVars>>

\* ------------------------------------------------------------ imageServ

\* main.go:81-84  clientChan := make(ClientChan, 30); under clientsMutex:
\* clients[clientChan] = struct{}{}
Subscribe(s) ==
    /\ pc[s] = "idle"
    /\ LockFree(clientsMutex)
    /\ clients' = Register(clients, s)
    /\ pc' = [pc EXCEPT ![s] = "wait"]
    /\ joinedAt' = [joinedAt EXCEPT ![s] = RecordId(@, lastPub)]
    /\ UNCHANGED <<clientsMutex, q, chClosed, cancelled, cur, offered, written>>
    /\ UNCHANGED <<camVars, bcVars>>
    /\ UNCHANGED <<recording, sinkVars>>

\* main.go:104-107  case frame, ok := <-clientChan: if !ok { return }
Recv(s) ==
    /\ pc[s] = "wait"
    /\ IF q[s] # <<>>
         THEN /\ cur' = [cur EXCEPT ![s] = RecvFrame(q[s])]
              /\ q' = [q EXCEPT ![s] = RecvRest(@)]
              /\ pc' = [pc EXCEPT ![s] = "write"]
         ELSE /\ chClosed[s]
              /\ pc' = [pc EXCEPT ![s] = "exit"]
              /\ UNCHANGED <<cur, q>>
    /\ UNCHANGED <<chClosed, cancelled, offered, written, joinedAt>>
    /\ UNCHANGED <<camVars, bcVars, regVars>>
    /\ UNCHANGED <<recording, sinkVars>>

\* main.go:119-120  case <-req.Context().Done(): return
RecvDone(s) ==
    /\ pc[s] = "wait"
    /\ DoneReady(cancelled[s])
    /\ pc' = [pc EXCEPT ![s] = "exit"]
    /\ UNCHANGED <<q, chClosed, cancelled, cur, offered, written, joinedAt>>
    /\ UNCHANGED <<camVars, bcVars, regVars>>
    /\ UNCHANGED <<recording, sinkVars>>

\* main.go:109-118  CreatePart, then part.Write(frame); either may fail
WritePart(s) ==
    /\ pc[s] = "write"
    /\ \E res \in {"ok", "createFailed", "writeFailed"} :
         /\ pc' = [pc EXCEPT ![s] = AfterWrite(res)]
         /\ written' = [written EXCEPT ![s] = IF res = "ok" THEN Record(@, cur[s]) ELSE @]
    /\ cur' = [cur EXCEPT ![s] = NoFrame]
    /\ UNCHANGED <<q, chClosed, cancelled, offered, joinedAt>>
    /\ UNCHANGED <<camVars, bcVars, regVars>>
    /\ UNCHANGED <<recording, sinkVars>>

\* main.go:87-89  deferred, under clientsMutex: delete(clients, clientChan)
Unsubscribe(s) ==
    /\ pc[s] = "exit"
    /\ LockFree(clientsMutex)
    /\ clients' = Unregister(clients, s)
    /\ pc' = [pc EXCEPT ![s] = "close"]
    /\ UNCHANGED <<clientsMutex, q, chClosed, cancelled, cur, offered, written, joinedAt>>
    /\ UNCHANGED <<camVars, bcVars>>
    /\ UNCHANGED <<recording, sinkVars>>

\* main.go:90  close(clientChan); the handler returns
CloseChan(s) ==
    /\ pc[s] = "close"
    /\ chClosed' = [chClosed EXCEPT ![s] = TRUE]
    /\ pc' = [pc EXCEPT ![s] = "returned"]
    /\ UNCHANGED <<q, cancelled, cur, offered, written, joinedAt>>
    /\ UNCHANGED <<camVars, bcVars, regVars>>
    /\ UNCHANGED <<recording, sinkVars>>

\* the client disconnects or the request times out while the session serves
\* it: req.Context() is done
Cancel(s) ==
    /\ pc[s] \in {"wait", "write"}
    /\ ~cancelled[s]
    /\ cancelled' = [cancelled EXCEPT ![s] = TRUE]
    /\ UNCHANGED <<q, chClosed, pc, cur, offered, written, joinedAt>>
    /\ UNCHANGED <<camVars, bcVars, regVars>>
    /\ UNCHANGED <<recording, sinkVars>>

\* ----------------------------------------------------------------- Next

Next ==
    \/ \E h \in Handles : Capture(h)
    \/ \E r \in Restarts : RestartClose(r)
    \/ \E r \in Restarts : RestartOpen(r)
    \/ BcStart
    \/ BcRecv
    \/ BcLock
    \/ BcSend
    \/ BcUnlock
    \/ \E s \in Sessions : Subscribe(s)
    \/ \E s \in Sessions : Recv(s)
    \/ \E s \in Sessions : RecvDone(s)
    \/ \E s \in Sessions : WritePart(s)
    \/ \E s \in Sessions : Unsubscribe(s)
    \/ \E s \in Sessions : CloseChan(s)
    \/ \E s \in Sessions : Cancel(s)

Spec == Init /\ [][Next]_vars

\* ------------------------------------ part_000: the recording variant

\* part_000:305-309  select { case encodedFrameChan <- frame: default: log }
SendShared(buf, f) == IF Len(buf) < EncodedChanCap THEN Append(buf, f) ELSE buf

\* part_000:298-302  the outcome of ffmpegIn.Write(frame) on a pipe whose
\* reader is alive: the loop goes on to the send; on a pipe whose reader has
\* exited: the write fails and frameBroadcaster returns
AfterSinkWrite(state) == IF state = "exited" THEN "done" ELSE "send"

\* part_000:289  frames := cameraDevice.GetOutput(), after ffmpeg was started
RecStart ==
    /\ bcpc = "start"
    /\ bcpc' = "recv"
    /\ bcFrames' = cameraDevice
    /\ UNCHANGED <<bcFrame, bcTodo, lastPub>>
    /\ UNCHANGED <<camVars, regVars, sessVars, recording, sinkVars>>

\* part_000:290-295  for frame := range frames { if len(frame) == 0 { continue }
RecRecv ==
    /\ bcpc = "recv"
    /\ IF output[bcFrames] # <<>>
         THEN LET f == Head(output[bcFrames]) IN
              /\ output' = [output EXCEPT ![bcFrames] = Tail(@)]
              /\ IF IsEmptyFrame(f)
                   THEN UNCHANGED <<bcpc, bcFrame>>
                   ELSE /\ bcpc' = "sinkwrite"
                        /\ bcFrame' = f
         ELSE /\ outClosed[bcFrames]
              /\ bcpc' = "done"
              /\ UNCHANGED <<output, bcFrame>>
    /\ UNCHANGED <<bcFrames, bcTodo, lastPub>>
    /\ UNCHANGED <<cameraDevice, devState, outClosed, closes, nextFrame, nextHandle, rpc>>
    /\ UNCHANGED <<regVars, sessVars, recording, sinkVars>>

\* part_000:298-302  _, err = ffmpegIn.Write(frame); if err != nil { return }
\* The write blocks while ffmpeg does not read its stdin.
RecSinkWrite ==
    /\ bcpc = "sinkwrite"
    /\ sink # "stalled"
    /\ bcpc' = AfterSinkWrite(sink)
    /\ sinkGot' = IF sink = "running" THEN Append(sinkGot, bcFrame) ELSE sinkGot
    /\ UNCHANGED <<bcFrames, bcFrame, bcTodo, lastPub>>
    /\ UNCHANGED <<encodedFrameChan, sink, inWindow, winRestarts, winStart>>
    /\ UNCHANGED <<camVars, regVars, sessVars, recording>>

\* part_000:305-309  the non-blocking send to the shared channel
RecSend ==
    /\ bcpc = "send"
    /\ encodedFrameChan' = SendShared(encodedFrameChan, bcFrame)
    /\ bcpc' = "clock"
    /\ UNCHANGED <<bcFrames, bcFrame, bcTodo, lastPub>>
    /\ UNCHANGED <<sink, sinkGot, inWindow, winRestarts, winStart>>
    /\ UNCHANGED <<camVars, regVars, sessVars, recording>>

\* part_000:311-320  minute is 0 or 30 and second is 0..2: restartCamera()
\* part_000:348-356  restartCamera closes the device and reopens it; a failed
\* reopen leaves cameraDevice nil (and so does one past the last handle of
\* the model)
RecClock ==
    /\ bcpc = "clock"
    /\ bcpc' = "recv"
    /\ bcFrame' = NoFrame
    /\ IF inWindow
         THEN /\ \E c \in BOOLEAN :
                   outClosed' = IF cameraDevice # NoHandle
                                  THEN [outClosed EXCEPT ![cameraDevice] = @ \/ c]
                                  ELSE outClosed
              /\ closes' = IF cameraDevice # NoHandle
                             THEN [closes EXCEPT ![cameraDevice] = @ + 1]
                             ELSE closes
              /\ \E ok \in BOOLEAN :
                   IF ok /\ nextHandle \in Handles
                     THEN /\ cameraDevice' = nextHandle
                          /\ devState' = [h \in Handles |->
                                 IF h = nextHandle THEN "open"
                                 ELSE IF h = cameraDevice THEN "closed"
                                 ELSE devState[h]]
                          /\ nextHandle' = nextHandle + 1
                     ELSE /\ cameraDevice' = NoHandle
                          /\ devState' = [h \in Handles |->
                                 IF h = cameraDevice THEN "closed" ELSE devState[h]]
                          /\ UNCHANGED nextHandle
         ELSE UNCHANGED <<cameraDevice, devState, outClosed, closes, nextHandle>>
    /\ winRestarts' = IF inWindow THEN winRestarts + 1 ELSE winRestarts
    /\ UNCHANGED <<output, nextFrame, rpc>>
    /\ UNCHANGED <<bcFrames, bcTodo, lastPub>>
    /\ UNCHANGED <<regVars, sessVars, recording>>
    /\ UNCHANGED <<encodedFrameChan, sink, sinkGot, inWindow, winStart>>

\* ffmpeg stops reading its stdin (the pipe backs up), reads again, or exits
SinkStalls ==
    /\ sink = "running"
    /\ sink' = "stalled"
    /\ UNCHANGED <<encodedFrameChan, sinkGot, inWindow, winRestarts, winStart>>
    /\ UNCHANGED <<camVars, bcVars, regVars, sessVars, recording>>

SinkResumes ==
    /\ sink = "stalled"
    /\ sink' = "running"
    /\ UNCHANGED <<encodedFrameChan, sinkGot, inWindow, winRestarts, winStart>>
    /\ UNCHANGED <<camVars, bcVars, regVars, sessVars, recording>>

SinkExits ==
    /\ sink # "exited"
    /\ sink' = "exited"
    /\ UNCHANGED <<encodedFrameChan, sinkGot, inWindow, winRestarts, winStart>>
    /\ UNCHANGED <<camVars, bcVars, regVars, sessVars, recording>>

\* part_000:312-316  time.Now() enters or leaves the window (minute 0 or 30,
\* second 0..2)
ClockMoves ==
    /\ inWindow' = ~inWindow
    /\ winRestarts' = IF inWindow THEN winRestarts ELSE 0
    /\ winStart' = IF inWindow THEN winStart ELSE nextFrame
    /\ UNCHANGED <<encodedFrameChan, sink, sinkGot>>
    /\ UNCHANGED <<camVars, bcVars, regVars, sessVars, recording>>

\* part_000:325-331  a /stream request: imageServ reaches its range over
\* encodedFrameChan
RecServe(s) ==
    /\ pc[s] = "idle"
    /\ pc' = [pc EXCEPT ![s] = "wait"]
    /\ UNCHANGED <<q, chClosed, cancelled, cur, offered, written, joinedAt>>
    /\ UNCHANGED <<camVars, bcVars, regVars, recording, sinkVars>>

\* part_000:333  for frame := range encodedFrameChan : whichever viewer
\* receives first takes the frame
RecServeRecv(s) ==
    /\ pc[s] = "wait"
    /\ encodedFrameChan # <<>>
    /\ cur' = [cur EXCEPT ![s] = Head(encodedFrameChan)]
    /\ encodedFrameChan' = Tail(encodedFrameChan)
    /\ pc' = [pc EXCEPT ![s] = "write"]
    /\ UNCHANGED <<q, chClosed, cancelled, offered, written, joinedAt>>
    /\ UNCHANGED <<sink, sinkGot, inWindow, winRestarts, winStart>>
    /\ UNCHANGED <<camVars, bcVars, regVars, recording>>

\* part_000:334-343  CreatePart and Write; a failure returns from the handler
RecServeWrite(s) ==
    /\ pc[s] = "write"
    /\ \E res \in {"ok", "createFailed", "writeFailed"} :
         /\ pc' = [pc EXCEPT ![s] = IF res = "ok" THEN "wait" ELSE "returned"]
         /\ written' = [written EXCEPT ![s] = IF res = "ok" THEN Record(@, cur[s]) ELSE @]
    /\ cur' = [cur EXCEPT ![s] = NoFrame]
    /\ UNCHANGED <<q, chClosed, cancelled, offered, joinedAt>>
    /\ UNCHANGED <<camVars, bcVars, regVars, recording, sinkVars>>

NextSink ==
    \/ \E h \in Handles : Capture(h)
    \/ RecStart
    \/ RecRecv
    \/ RecSinkWrite
    \/ RecSend
    \/ RecClock
    \/ SinkStalls
    \/ SinkResumes
    \/ SinkExits
    \/ ClockMoves
    \/ \E s \in Sessions : RecServe(s)
    \/ \E s \in Sessions : RecServeRecv(s)
    \/ \E s \in Sessions : RecServeWrite(s)

SpecSink == Init /\ [][NextSink]_vars

\* ------------------------------------------- concurrent /restart requests
\* main.go:216  net/http runs every /restart request in a goroutine of its own:
\* the capture task with two restartCamera calls in flight and no viewer
\* connected (the range over the empty registry has no iteration)
NextRestart ==
    \/ \E h \in Handles : Capture(h)
    \/ \E r \in RestartTasks : RestartClose(r)
    \/ \E r \in RestartTasks : RestartOpen(r)
    \/ BcStart
    \/ BcRecv
    \/ BcLock
    \/ BcUnlock

SpecRestart == Init /\ [][NextRestart]_vars

\* Scheduling: frameBroadcaster and the /restart handler run to their next
\* blocking point; a session whose request is cancelled leaves its select
\* once the Done case stays ready (Go's select picks among its ready cases at
\* random, which would justify strong fairness; weak fairness is all that is
\* assumed), its write to the dead connection returns, and its deferred
\* teardown runs.  Nothing
\* forces the camera to yield a frame, a client to connect or to cancel, or a
\* viewer to drain its queue: a client may stall for ever.
Fairness ==
    /\ WF_vars(BcStart \/ BcRecv \/ BcLock \/ BcSend \/ BcUnlock)
    /\ \A r \in Restarts : WF_vars(RestartOpen(r))
    /\ \A s \in Sessions :
         /\ WF_vars(RecvDone(s))
         /\ WF_vars(cancelled[s] /\ WritePart(s))
         /\ WF_vars(Unsubscribe(s) \/ CloseChan(s))

FairSpec == InitLive /\ [][Next]_vars /\ Fairness

\* ----------------------------------------------------------- properties

Range(seq) == {seq[i] : i \in DOMAIN seq}

Increasing(seq) == \A i, j \in DOMAIN seq : i < j => seq[i].id < seq[j].id

\* seq without the elements after its first n
Prefix(seq, n) == SubSeq(seq, 1, IF Len(seq) < n THEN Len(seq) ELSE n)

\* the frames session s has taken or still holds, oldest first: written, in
\* hand, queued
Pipeline(s) ==
    written[s] \o (IF cur[s] = NoFrame THEN <<>> ELSE <<cur[s]>>) \o q[s]

\* positions of imageServ after its loop has ended
Ending == {"exit", "close", "returned"}

C2_PublishNeverBlocks == (bcpc \in {"lock", "fanout"}) ~> (bcpc = "recv")

\* the pass is about to send to a viewer whose queue is full and who is not
\* draining it
C2_Witness ==
    /\ bcpc = "fanout"
    /\ \E c \in bcTodo : Len(q[c]) = ClientChanCap /\ pc[c] = "wait"

\* ------------------------------------------------------------------ C3
\* C3: a send to a full queue drops the new frame for that viewer only: the
\* queue keeps its contents and order, the other queues are not touched by
\* that step, a queue with room gets the frame appended, every viewer of the
\* registry is served by the pass, and no queue exceeds its capacity.
C3_SendStep ==
    \A c \in Sessions :
        offered'[c] # offered[c] =>
            /\ q'[c] = IF Len(q[c]) >= ClientChanCap THEN q[c] ELSE Append(q[c], bcFrame)
            /\ \A d \in Sessions \ {c} : q'[d] = q[d]

C3_PassServesAll ==
    (bcpc = "fanout" /\ bcTodo = {}) =>
        \A c \in clients : offered[c] # <<>> /\ offered[c][Len(offered[c])] = bcFrame

C3_DropOnFull ==
    /\ [](\A s \in Sessions : Len(q[s]) <= ClientChanCap)
    /\ []C3_PassServesAll
    /\ [][C3_SendStep]_vars

\* a frame was dropped for a viewer with a full queue of older frames while
\* another viewer got it
C3_Witness ==
    \E c, d \in Sessions :
        /\ c # d
        /\ Len(q[c]) = ClientChanCap
        /\ offered[c] # <<>>
        /\ offered[c][Len(offered[c])].id > q[c][Len(q[c])].id
        /\ offered[c][Len(offered[c])] \in Range(q[d])

\* ------------------------------------------------------------------ C4
\* C4: every frame published is non-empty and is offered exactly once to
\* every viewer registered during its pass and to no other; a queue with room
\* takes it; what a viewer has taken or holds is, in order, a part of what it
\* was offered; a viewer that has never drained holds exactly the first
\* ClientChanCap frames offered to it.
C4_Offers ==
    \A s \in Sessions :
        /\ Increasing(offered[s])
        /\ \A i \in DOMAIN offered[s] : ~IsEmptyFrame(offered[s][i])
        /\ bcpc = "fanout" =>
              (bcFrame \in Range(offered[s])) = (s \in clients /\ s \notin bcTodo)

C4_Holds ==
    \A s \in Sessions :
        /\ pc[s] \in {"wait", "write"} =>
              /\ Range(Pipeline(s)) \subseteq Range(offered[s])
              /\ Len(offered[s]) <= ClientChanCap => Pipeline(s) = offered[s]
        /\ (pc[s] = "wait" /\ written[s] = <<>>) =>
              q[s] = Prefix(offered[s], ClientChanCap)

C4_EnqueueStep ==
    \A c \in Sessions :
        (offered'[c] # offered[c] /\ Len(q[c]) < ClientChanCap) =>
            /\ Len(q'[c]) = Len(q[c]) + 1
            /\ q'[c][Len(q'[c])] = offered'[c][Len(offered'[c])]

C4_EachFrameOnce == []C4_Offers /\ []C4_Holds /\ [][C4_EnqueueStep]_vars

\* one viewer has been written every frame of the run while another, which
\* never drained, holds the first ClientChanCap frames and lost a later one
C4_Witness ==
    \E s, d \in Sessions :
        /\ Len(written[s]) = MaxFrames
        /\ pc[d] = "wait" /\ written[d] = <<>>
        /\ Len(q[d]) = ClientChanCap
        /\ Len(offered[d]) > ClientChanCap

\* ------------------------------------------------------------------ C5
\* C5: the teardown of one viewer (delete from the registry, close of its
\* queue) leaves every other viewer's queue, registry membership, channel and
\* offers unchanged and does not touch the pass in progress; a viewer's queue
\* changes only by its own receive or by a send of the frame being published.
C5_TeardownStep ==
    \A s \in Sessions :
        (pc[s] \in Ending /\ pc'[s] # pc[s]) =>
            /\ \A t \in Sessions \ {s} :
                  /\ q'[t] = q[t]
                  /\ (t \in clients') = (t \in clients)
                  /\ chClosed'[t] = chClosed[t]
                  /\ offered'[t] = offered[t]
                  /\ pc'[t] = pc[t]
            /\ UNCHANGED <<bcpc, bcFrame, bcTodo, bcFrames>>

C5_QueueStep ==
    \A t \in Sessions :
        q'[t] # q[t] =>
            \/ pc[t] = "wait" /\ pc'[t] = "write" /\ q'[t] = Tail(q[t])
            \/ /\ bcpc = "fanout" /\ t \in clients /\ Len(q[t]) < ClientChanCap
               /\ q'[t] = Append(q[t], bcFrame)

C5_RemovalIsolated == [][C5_TeardownStep /\ C5_QueueStep]_vars

\* a viewer that had been served has been removed, and another viewer, still
\* registered, has since been offered a later frame
C5_Witness ==
    \E s, t \in Sessions :
        /\ s # t
        /\ pc[s] = "returned" /\ offered[s] # <<>>
        /\ t \in clients /\ offered[t] # <<>>
        /\ offered[t][Len(offered[t])].id > offered[s][Len(offered[s])].id

\* ------------------------------------------------------------------ C6
\* C6: for a viewer that is registered while frameBroadcaster is streaming
\* and no restart has begun: from then on, whenever a restart has reopened
\* the device and the new device holds a non-empty frame, that viewer either
\* leaves the registry or frameBroadcaster comes to publish a frame of the
\* new device.
C6_NewFrameWaiting(h) ==
    /\ \A r \in Restarts : rpc[r] = "done"
    /\ cameraDevice = h
    /\ output[h] # <<>>
    /\ ~IsEmptyFrame(Head(output[h]))

C6_RestartResumes ==
    \A s \in Sessions : \A h \in Handles \ {1} :
        []((/\ s \in clients
            /\ bcpc = "recv"
            /\ \A r \in Restarts : rpc[r] = "idle")
             => [](C6_NewFrameWaiting(h) => <>(s \notin clients \/ bcFrame.src = h)))

\* ------------------------------------------------------------------ C7
\* C7: a pass over an empty registry changes nothing but the broadcaster's
\* own position, and no viewer is ever offered, holds or is written a frame
\* whose pass had completed when the viewer was inserted into the registry.
C7_NothingOlder ==
    \A s \in Sessions :
        \A f \in Range(offered[s]) \cup Range(Pipeline(s)) : f.id > joinedAt[s]

C7_EmptyPassStep ==
    (clients = {} /\ bcpc \in {"lock", "fanout"} /\ bcpc' # bcpc) =>
        /\ bcTodo' = {}
        /\ UNCHANGED <<q, chClosed, pc, cur, offered, written, clients>>

C7_NoBuffering == []C7_NothingOlder /\ [][C7_EmptyPassStep]_vars

\* a frame was published to nobody, and a viewer inserted after that pass has
\* been written a later frame
C7_Witness ==
    \E s \in Sessions :
        /\ joinedAt[s] >= 1
        /\ \A t \in Sessions : \A f \in Range(offered[t]) : f.id # joinedAt[s]
        /\ written[s] # <<>>

\* ------------------------------------------------------------------ C8
\* C8: once a viewer's request is cancelled its session returns and the
\* viewer is out of the registry, whether or not another frame is published.
C8_CancelTerminates ==
    \A s \in Sessions : cancelled[s] ~> (pc[s] = "returned" /\ s \notin clients)

\* a cancelled session waits on an empty queue and the broadcaster has
\* returned: no frame will be published again
C8_Witness ==
    \E s \in Sessions :
        cancelled[s] /\ pc[s] = "wait" /\ q[s] = <<>> /\ bcpc = "done"

\* ------------------------------------------------------------------ C9
\* C9: a failed CreatePart or Write ends the loop at once (no retry); once the
\* loop has ended the session writes nothing more and takes nothing more from
\* its queue, its teardown is never blocked by anything but the registry
\* lock, and when the handler has returned the viewer is out of the registry
\* and its queue is closed, whatever the queue still holds.
C9_FailureStep ==
    \A s \in Sessions :
        /\ (pc[s] = "write" /\ pc'[s] # "write" /\ written'[s] = written[s]) =>
              pc'[s] = "exit"
        /\ pc[s] \in Ending =>
              /\ pc'[s] \in Ending
              /\ written'[s] = written[s]
              /\ cur'[s] = NoFrame
              /\ Len(q'[s]) >= Len(q[s])

C9_TornDown ==
    \A s \in Sessions :
        /\ pc[s] \in {"close", "returned"} => s \notin clients
        /\ pc[s] = "returned" => chClosed[s]
        /\ (pc[s] = "exit" /\ clientsMutex = MutexFree) => ENABLED Unsubscribe(s)
        /\ pc[s] = "close" => ENABLED CloseChan(s)

C9_NoRetry == []C9_TornDown /\ [][C9_FailureStep]_vars

\* a session whose write failed (its request was not cancelled) has returned
\* with a frame still in its queue
C9_Witness ==
    \E s \in Sessions :
        pc[s] = "returned" /\ ~cancelled[s] /\ q[s] # <<>> /\ chClosed[s]

\* ----------------------------------------------------------------- C10
\* C10: a failed write to the sink does not stop the capture loop:
\* frameBroadcaster never returns with a frame in hand that it has not
\* offered to the viewers.
C10_SinkIsolated == ~(bcpc = "done" /\ bcFrame # NoFrame)

\* ----------------------------------------------------------------- C11
\* C11: every client channel in the registry is open; a channel enters the
\* registry only from the session that has just made it, so none is inserted
\* again after its removal, and the registry holds each channel once.
C11_OpenInRegistry ==
    \A s \in Sessions :
        /\ s \in clients => ~chClosed[s]
        /\ s \in clients => pc[s] \in {"wait", "write", "exit"}

C11_InsertStep ==
    \A s \in Sessions :
        (s \notin clients /\ s \in clients') => (pc[s] = "idle" /\ pc'[s] = "wait")

C11_RegistryLive == []C11_OpenInRegistry /\ [][C11_InsertStep]_vars

\* one viewer's channel has been removed and closed while the other's is
\* still registered
C11_Witness ==
    \E s, t \in Sessions :
        /\ chClosed[s] /\ s \notin clients
        /\ t \in clients /\ pc[t] = "wait"

\* ----------------------------------------------------------------- C12
\* C12: at most one device handle is open at any time, at most one
\* restartCamera call is between its Close and its setupCamera, and no handle
\* has Close called on it twice.
C12_OneHandle ==
    /\ Cardinality({h \in Handles : devState[h] = "open"}) <= 1
    /\ Cardinality({r \in RestartTasks : rpc[r] = "open"}) <= 1
    /\ \A h \in Handles : closes[h] <= 1

\* ----------------------------------------------------------------- C13
\* C13: clientsMutex is not held in a step that attempts a send on a client
\* channel.
C13_SendStep ==
    (\E c \in Sessions : offered'[c] # offered[c]) => clientsMutex = MutexFree

C13_LockOnlyForMembership == [][C13_SendStep]_vars

\* ----------------------------------------------------------------- C14
\* C14: a session whose request is cancelled takes no frame from its queue
\* any more: its next wait ends the loop.
C14_DequeueStep ==
    \A s \in Sessions :
        cancelled[s] => ~(pc[s] = "wait" /\ pc'[s] = "write")

C14_NoDequeueAfterCancel == [][C14_DequeueStep]_vars

\* ----------------------------------------------------------------- C15
\* C15: a failed reopen does not bring the process down: frameBroadcaster
\* never panics, a nil cameraDevice means no device is open, the step in
\* which setupCamera fails leaves every viewer registered and its session
\* where it was.
C15_NoCrash ==
    /\ bcpc # "panic"
    /\ cameraDevice = NoHandle => \A h \in Handles : devState[h] # "open"

C15_FailedOpenStep ==
    (cameraDevice' = NoHandle /\ cameraDevice' # cameraDevice) =>
        UNCHANGED <<clients, pc, chClosed, q, bcpc>>

C15_FailedReopenSurvives == []C15_NoCrash /\ [][C15_FailedOpenStep]_vars

\* ----------------------------------------------------------------- C16
\* C16: a zero-length frame is skipped: the step that takes it from the
\* device's output changes nothing else (no queue, no sink, no device, no
\* restart, and frameBroadcaster stays at its range over the frames), and no
\* zero-length frame is ever in the broadcaster's hand, in a viewer queue or
\* among the frames written to the sink.
C16_NoEmptyForwarded ==
    /\ bcFrame # NoFrame => bcFrame.len > 0
    /\ \A f \in Range(encodedFrameChan) \cup Range(sinkGot) : f.len > 0
    /\ \A s \in Sessions :
          \A f \in Range(q[s]) \cup Range(offered[s]) : f.len > 0

C16_SkipStep ==
    \A h \in Handles :
        (/\ output[h] # <<>>
         /\ Head(output[h]).len = 0
         /\ output'[h] # output[h])
          => /\ output'[h] = Tail(output[h])
             /\ UNCHANGED <<cameraDevice, devState, outClosed, closes, nextHandle, rpc>>
             /\ UNCHANGED <<bcVars, regVars, sessVars, sinkVars>>

C16_EmptyFrameSkipped == []C16_NoEmptyForwarded /\ [][C16_SkipStep]_vars

\* the first frame of the run was zero-length and skipped; the second went
\* to the sink and to the viewers' channel
C16_Witness ==
    /\ sinkGot # <<>>
    /\ sinkGot[1].id = 2
    /\ sinkGot[1] \in Range(encodedFrameChan)

\* ----------------------------------------------------------------- C17
\* C17: restartCamera is called exactly once per restart window: never twice
\* in one window, and once in every window in which the camera yielded a
\* frame and which closes with frameBroadcaster back at its range, nothing
\* left for it to read.
C17_AtMostOnce == winRestarts <= 1

C17_WindowCloseStep ==
    (/\ inWindow /\ ~inWindow'
     /\ nextFrame > winStart
     /\ bcpc = "recv" /\ output[bcFrames] = <<>>)
      => winRestarts = 1

C17_OncePerBoundary == []C17_AtMostOnce /\ [][C17_WindowCloseStep]_vars

\* ----------------------------------------------------------------- C18
\* C18: no send is attempted on a closed client channel: every channel the
\* fan-out has yet to visit is registered and open; and a channel is closed
\* once, by its own session, after the session has deleted it from the
\* registry.
C18_FanoutTargetsOpen ==
    bcpc = "fanout" => \A c \in bcTodo : c \in clients /\ ~chClosed[c]

C18_SendStep ==
    \A c \in Sessions : offered'[c] # offered[c] => ~chClosed[c]

C18_CloseStep ==
    \A s \in Sessions :
        /\ chClosed'[s] # chClosed[s] =>
              pc[s] = "close" /\ pc'[s] = "returned" /\ s \notin clients
        /\ (pc[s] = "close" /\ pc'[s] # pc[s]) => ~chClosed[s] /\ chClosed'[s]
        /\ chClosed[s] => chClosed'[s]

C18_NoSendOnClosed ==
    []C18_FanoutTargetsOpen /\ [][C18_SendStep /\ C18_CloseStep]_vars

\* a fan-out pass has yet to send to a viewer whose session has ended and
\* waits for the lock to tear down, after another viewer's channel was closed
C18_Witness ==
    \E s, t \in Sessions :
        /\ bcpc = "fanout" /\ s \in bcTodo /\ pc[s] = "exit"
        /\ chClosed[t] /\ offered[t] # <<>>

\* ----------------------------------------------------------------- C19
\* C19: a channel is in the registry exactly from its session's insert, made
\* before the first wait, to its deferred delete: a session in its loop is
\* registered, a session not yet started or past its delete is not, however
\* the loop ended; with no session between insert and delete the registry is
\* empty.
C19_RegisteredIffLive ==
    /\ \A s \in Sessions : (s \in clients) = (pc[s] \in {"wait", "write", "exit"})
    /\ (\A s \in Sessions : pc[s] \in {"idle", "returned"}) => clients = {}

\* one session ended by cancellation and one by a failed part have both
\* returned
C19_Witness ==
    \E s, t \in Sessions :
        /\ pc[s] = "returned" /\ cancelled[s]
        /\ pc[t] = "returned" /\ ~cancelled[t]
        /\ clients = {}

\* ----------------------------------------------------------------- C20
\* C20: clientsMutex is always released again, and whoever waits for it gets
\* it: frameBroadcaster at its Lock enters the fan-out, a session that has
\* left its loop gets to delete its channel, and a session that has not yet
\* inserted its channel comes to find the mutex free; no viewer has to drain
\* its queue for that.  A task leaves its Lock only by acquiring the mutex
\* (C20_AcquireStep), so "always eventually not waiting" is "every wait ends
\* with the mutex acquired".
C20_AcquireStep ==
    /\ bcpc = "lock" => bcpc' \in {"lock", "fanout"}
    /\ \A s \in Sessions : pc[s] = "exit" => pc'[s] \in {"exit", "close"}

C20_LockLive ==
    /\ []<>(clientsMutex = MutexFree)
    /\ []<>(bcpc # "lock")
    /\ \A s \in Sessions : []<>(pc[s] # "exit")
    /\ \A s \in Sessions : []<>(pc[s] # "idle" \/ ENABLED Subscribe(s))
    /\ [][C20_AcquireStep]_vars

\* the fan-out, holding the mutex, is about to send to a full queue while a
\* session that has left its loop waits for the mutex
C20_Witness ==
    /\ bcpc = "fanout" /\ clientsMutex = BcHolder
    /\ \E c \in bcTodo : Len(q[c]) = ClientChanCap
    /\ \E s \in Sessions : pc[s] = "exit"

====
